---- MODULE Spec2Model ----
(***************************************************************************)
(* A model of sam_opts.c: the remapping of the global long options onto    *)
(* short option characters (assign_short_opts), the dispatch of a scanned  *)
(* option code onto the global settings (parse_sam_global_opt), the usage  *)
(* text (sam_global_opt_help) and the settings' initialisation             *)
(* (sam_global_args_init).                                                 *)
(*                                                                         *)
(* Characters and option codes are C ints.  A C string is a sequence of    *)
(* non-zero character codes; reading the index just past it yields the     *)
(* terminating NUL (0).  A table of struct option is a function over       *)
(* 0..N whose entry N is the terminator {NULL, 0, NULL, 0}.                *)
(***************************************************************************)
EXTENDS Integers, Sequences, FiniteSets

\* ------------------------------------------------------------------ bounds

\* The largest number of descriptors (terminator excluded) of a table
\* handed to assign_short_opts.
MaxN == 3

\* The largest number of parse_sam_global_opt calls of one parse session.
MaxCalls == 3

\* The number of iterations after which a loop that no longer advances is
\* not counted further.
MaxSpin == 5

\* The longest control string handed to sam_global_opt_help.
MaxHelpLen == 6

\* ------------------------------------------------------- program constants

\* '.' : no short option has been assigned.
Dot == 46

\* '-' : the long (and short) option has been disabled.
Dash == 45

\* The NUL that ends a C string.
NUL == 0

\* The name pointer of the terminating entry of a table.
Null == "NULL"

\* The five global long options, and one long option of a subcommand's own.
GlobalNames ==
    <<"input-fmt", "input-fmt-option", "output-fmt", "output-fmt-option", "verbose">>

OtherName == "threads"

AllNames == GlobalNames \o <<OtherName>>

\* has_arg of a descriptor: no_argument (0) for verbose, required_argument (1)
\* for the others.
HasArg(name) == IF name = "verbose" THEN 0 ELSE 1

Sentinel == [name |-> Null, has_arg |-> 0, val |-> 0]

\* ----------------------------------------------------------------- inputs

\* The letters a control string assigns.
Letters == {97, 98}

ControlChars == {Dot, Dash} \cup Letters

\* The values a descriptor's val holds before the call: unset, or a letter.
InitVals == {0, 97}

Range(s) == {s[k] : k \in DOMAIN s}

\* Strictly increasing choices of n names out of AllNames: the names of a table
\* are distinct.
NameChoices(n) ==
    {f \in [0..(n - 1) -> 1..Len(AllNames)] :
        \A a, b \in 0..(n - 1) : a < b => f[a] < f[b]}

MkTable(n, f, v) ==
    [k \in 0..n |->
        IF k = n THEN Sentinel
        ELSE [name |-> AllNames[f[k]], has_arg |-> HasArg(AllNames[f[k]]), val |-> v[k]]]

\* The sentinel-terminated tables of n descriptors with val drawn from vals.
TablesWith(n, vals) ==
    {MkTable(n, f, v) : f \in NameChoices(n), v \in [0..(n - 1) -> vals]}

\* The tables handed to assign_short_opts.
TablesOf(n) == TablesWith(n, InitVals)

\* The control strings of length n: '.', '-' and distinct letters.
StringsOf(n) ==
    {s \in [1..n -> ControlChars] :
        \A a, b \in 1..n : (a # b /\ s[a] \in Letters) => s[a] # s[b]}

\* A const char * argument: NULL, or a string.
NullStr == [null |-> TRUE, s |-> <<>>]

Str(s) == [null |-> FALSE, s |-> s]

\* shortopts[k], k counted from 0; the terminating NUL at k = length.
CharAt(so, k) == IF k < Len(so.s) THEN so.s[k + 1] ELSE NUL

\* Number of descriptors of a table (the terminator excluded).
NDesc(t) == Cardinality(DOMAIN t) - 1

VARIABLES
    lopts,      \* assign_short_opts: the table, rewritten in place
    lopts0,     \* the table as it was when assign_short_opts was called
    shortopts,  \* the control string
    i,          \* the read cursor
    j,          \* the write cursor
    pc,         \* position in assign_short_opts: "call", "loop", "done"
    acc,        \* the table accesses made so far: <<[w |-> j, r |-> i], ...>>
    oob,        \* TRUE once an index outside the table was read or written
    ga,         \* the sam_global_args the caller threads through the calls
    lopt,       \* parse_sam_global_opt: the table of the session, and
    cur,        \*   the index lopt points at
    c,          \*   the code the option scanner returned
    optarg,     \*   the option's argument
    r,          \*   the local r
    ret,        \*   the value returned
    dpc,        \*   position: "idle", "loop", "returned", "crashed"
    ga0,        \* the settings as they were when the call began
    calls,      \* the collaborator invocations of the call in progress
    ncalls,     \* the number of calls begun
    nverbose,   \* the number of calls begun whose first match is verbose
    examined,   \* the number of loop iterations of the call in progress
    hshort,     \* sam_global_opt_help: its control string
    hi,         \*   the index i
    fp,         \*   what was written to fp: a sequence of headers and descriptions
    hpc         \*   position: "idle", "call", "loop", "done", "crashed"

rvars == <<lopts, lopts0, shortopts, i, j, pc, acc, oob>>

dvars == <<ga, lopt, cur, c, optarg, r, ret, dpc, ga0, calls, ncalls, nverbose, examined>>

hvars == <<hshort, hi, fp, hpc>>

vars == <<rvars, dvars, hvars>>

\* ---------------------------------------------------- sam_global_args_init

\* An htsFormat of all zero bytes: format unknown, no option list.
ZeroFormat == [format |-> "unknown_format", opts |-> <<>>]

\* memset(ga, 0, sizeof(*ga));
sam_global_args_init == [in |-> ZeroFormat, out |-> ZeroFormat, verbosity |-> 0]

\* ------------------------------------------------------ assign_short_opts

\* shortopts && shortopts[i]
LoopCond(so, k) == ~so.null /\ CharAt(so, k) # NUL

InTable(t, k) == k \in DOMAIN t

CopyEntrySwapped(t, w, rd) == [t EXCEPT ![rd] = t[w]]

\* lopts[j] = lopts[i];
CopyEntry(t, w, rd) == [t EXCEPT ![w] = t[rd]]

AssignValAlways(d, ch) == [d EXCEPT !.val = ch]

\* else if (shortopts[i] != '.') lopts[j].val = shortopts[i];    (not '-')
AssignVal(d, ch) == IF ch # Dash /\ ch # Dot THEN [d EXCEPT !.val = ch] ELSE d

NextJNoSkip(w, ch) == w + 1

\* if (shortopts[i] == '-') j--;  followed by the loop's j++
NextJ(w, ch) == IF ch = Dash THEN (w - 1) + 1 ELSE w + 1

FinalCopyNone(t, w, rd) == t

\* lopts[j] = lopts[i];   after the loop
FinalCopy(t, w, rd) == [t EXCEPT ![w] = t[rd]]

\* for (i=j=0; ...
AssignStart ==
    /\ pc = "call"
    /\ i' = 0
    /\ j' = 0
    /\ pc' = "loop"
    /\ UNCHANGED <<lopts, lopts0, shortopts, acc, oob>>
    /\ UNCHANGED <<dvars, hvars>>

\* One iteration of the loop: the body, then i++,j++.
AssignIter ==
    /\ pc = "loop"
    /\ LoopCond(shortopts, i)
    /\ LET ch == CharAt(shortopts, i)
       IN  IF InTable(lopts, i) /\ InTable(lopts, j)
           THEN LET copied == CopyEntry(lopts, j, i)
                IN  /\ lopts' = [copied EXCEPT ![j] = AssignVal(copied[j], ch)]
                    /\ oob' = oob
           ELSE /\ lopts' = lopts
                /\ oob' = TRUE
    /\ acc' = Append(acc, [w |-> j, r |-> i])
    /\ j' = NextJ(j, CharAt(shortopts, i))
    /\ i' = i + 1
    /\ UNCHANGED <<lopts0, shortopts, pc>>
    /\ UNCHANGED <<dvars, hvars>>

\* The loop ends; the entry at the read cursor is copied to the write cursor.
AssignFinish ==
    /\ pc = "loop"
    /\ ~LoopCond(shortopts, i)
    /\ IF InTable(lopts, i) /\ InTable(lopts, j)
       THEN /\ lopts' = FinalCopy(lopts, j, i)
            /\ oob' = oob
       ELSE /\ lopts' = lopts
            /\ oob' = TRUE
    /\ acc' = Append(acc, [w |-> j, r |-> i])
    /\ pc' = "done"
    /\ UNCHANGED <<lopts0, shortopts, i, j>>
    /\ UNCHANGED <<dvars, hvars>>

\* The variables of sam_global_opt_help while no call is modelled.
HelpIdle ==
    /\ hshort = NullStr
    /\ hi = 0
    /\ fp = <<>>
    /\ hpc = "idle"

\* The variables of parse_sam_global_opt while no call is modelled.
DispatchIdle ==
    /\ ga = sam_global_args_init
    /\ lopt = <<>>
    /\ cur = 0
    /\ c = 0
    /\ optarg = ""
    /\ r = 0
    /\ ret = 0
    /\ dpc = "idle"
    /\ ga0 = ga
    /\ calls = <<>>
    /\ ncalls = 0
    /\ nverbose = 0
    /\ examined = 0

InitRemap ==
    /\ DispatchIdle
    /\ HelpIdle
    /\ \E n \in 1..MaxN :
         /\ lopts \in TablesOf(n)
         /\ shortopts \in {NullStr} \cup {Str(s) : s \in UNION {StringsOf(m) : m \in 0..n}}
    /\ lopts0 = lopts
    /\ i = 0
    /\ j = 0
    /\ pc = "call"
    /\ acc = <<>>
    /\ oob = FALSE

NextRemap == AssignStart \/ AssignIter \/ AssignFinish

SpecRemap == InitRemap /\ [][NextRemap]_vars

\* ------------------------------------ the collaborators of the format library

\* The arguments an option is given: a format name, or a KEY=VALUE token.
FormatNames == {"bam"}

OptionTokens == {"nthreads=4", "level=9"}

OptArgs == FormatNames \cup OptionTokens

\* The option a KEY=VALUE token stands for.
ParseOpt(arg) ==
    CASE arg = "nthreads=4" -> [key |-> "nthreads", val |-> "4"]
      [] arg = "level=9" -> [key |-> "level", val |-> "9"]
      [] OTHER -> [key |-> arg, val |-> ""]

\* The format-spec parser: on success (0) the format is stored in the target;
\* it fails (-1) on an argument that names no format, and may fail on any.
hts_parse_opt_format(fmt, arg) ==
    {[ret |-> -1, target |-> fmt]}
        \cup (IF arg \in FormatNames
              THEN {[ret |-> 0, target |-> [fmt EXCEPT !.format = arg]]}
              ELSE {})

\* The add-option collaborator: on success (0) the one option of the token is
\* appended to the list; it fails (-1) on an argument that is no option, and
\* may fail on any.
hts_opt_add(opts, arg) ==
    {[ret |-> -1, target |-> opts]}
        \cup (IF arg \in OptionTokens
              THEN {[ret |-> 0, target |-> Append(opts, ParseOpt(arg))]}
              ELSE {})

\* --------------------------------------------------- parse_sam_global_opt

\* The short-form values of the descriptors of a session's table.
SessionVals == Letters

\* The codes the option scanner hands over: those some descriptors carry, and
\* one no descriptor carries.
Codes == Letters \cup {99}

\* hts_parse_opt_format(&ga->which, optarg): the outcomes, each with the value
\* returned, the settings afterwards and the record of the invocation.
ParseInto(g, which, arg) ==
    {[ret |-> o.ret,
      ga |-> [g EXCEPT ![which] = o.target],
      call |-> [fn |-> "hts_parse_opt_format", target |-> which, arg |-> arg, ret |-> o.ret]] :
        o \in hts_parse_opt_format(g[which], arg)}

\* hts_opt_add(&ga->which.opts, optarg)
AddInto(g, which, arg) ==
    {[ret |-> o.ret,
      ga |-> [g EXCEPT ![which].opts = o.target],
      call |-> [fn |-> "hts_opt_add", target |-> which, arg |-> arg, ret |-> o.ret]] :
        o \in hts_opt_add(g[which].opts, arg)}

InputFmtIntoOut(g, arg) == ParseInto(g, "out", arg)

\* r = hts_parse_opt_format(&ga->in, optarg);
InputFmt(g, arg) == ParseInto(g, "in", arg)

InputFmtOptionIntoOut(g, arg) == AddInto(g, "out", arg)

\* r = hts_opt_add(&ga->in.opts, optarg);
InputFmtOption(g, arg) == AddInto(g, "in", arg)

\* r = hts_parse_opt_format(&ga->out, optarg);
OutputFmt(g, arg) == ParseInto(g, "out", arg)

\* r = hts_opt_add(&ga->out.opts, optarg);
OutputFmtOption(g, arg) == AddInto(g, "out", arg)

VerboseSet(g) == [g EXCEPT !.verbosity = 1]

\* ga->verbosity++;
Verbose(g) == [g EXCEPT !.verbosity = @ + 1]

\* One more iteration of the while loop.
Iterated == IF examined < MaxSpin THEN examined + 1 ELSE examined

\* The first descriptor, in table order, whose val is the code; the index of
\* the terminator when there is none.
FirstMatch(t, code) ==
    LET n == NDesc(t)
        ms == {k \in 0..(n - 1) : t[k].val = code}
    IN  IF ms = {} THEN n ELSE CHOOSE k \in ms : \A m \in ms : k <= m

\* The call: int r = 0; the loop starts at lopt.
DispatchCall ==
    /\ dpc \in {"idle", "returned"}
    /\ ncalls < MaxCalls
    /\ \E code \in Codes, arg \in OptArgs :
          /\ c' = code
          /\ optarg' = arg
          /\ nverbose' =
               IF lopt[FirstMatch(lopt, code)].name = "verbose"
               THEN nverbose + 1 ELSE nverbose
    /\ r' = 0
    /\ ret' = 0
    /\ cur' = 0
    /\ dpc' = "loop"
    /\ ga0' = ga
    /\ calls' = <<>>
    /\ ncalls' = ncalls + 1
    /\ examined' = 0
    /\ UNCHANGED <<ga, lopt>>
    /\ UNCHANGED <<rvars, hvars>>

\* if (c != lopt->val) { lopt++; continue; }
DispatchSkip ==
    /\ dpc = "loop"
    /\ lopt[cur].name # Null
    /\ c # lopt[cur].val
    /\ cur' = cur + 1
    /\ examined' = Iterated
    /\ UNCHANGED <<ga, lopt, c, optarg, r, ret, dpc, ga0, calls, ncalls, nverbose>>
    /\ UNCHANGED <<rvars, hvars>>

\* A branch that calls a collaborator: r is what it returned; break; the name
\* is not NULL, so the function returns r.
Delegated(outcomes) ==
    /\ \E o \in outcomes :
          /\ ga' = o.ga
          /\ r' = o.ret
          /\ ret' = o.ret
          /\ calls' = Append(calls, o.call)
    /\ dpc' = "returned"
    /\ examined' = Iterated
    /\ UNCHANGED <<lopt, cur, c, optarg, ga0, ncalls, nverbose>>
    /\ UNCHANGED <<rvars, hvars>>

Matched == dpc = "loop" /\ lopt[cur].name # Null /\ c = lopt[cur].val

DispatchInputFmt ==
    /\ Matched
    /\ lopt[cur].name = "input-fmt"
    /\ Delegated(InputFmt(ga, optarg))

DispatchInputFmtOption ==
    /\ Matched
    /\ lopt[cur].name = "input-fmt-option"
    /\ Delegated(InputFmtOption(ga, optarg))

DispatchOutputFmt ==
    /\ Matched
    /\ lopt[cur].name = "output-fmt"
    /\ Delegated(OutputFmt(ga, optarg))

DispatchOutputFmtOption ==
    /\ Matched
    /\ lopt[cur].name = "output-fmt-option"
    /\ Delegated(OutputFmtOption(ga, optarg))

\* verbose: r stays 0; break; return r.
DispatchVerbose ==
    /\ Matched
    /\ lopt[cur].name = "verbose"
    /\ ga' = Verbose(ga)
    /\ ret' = r
    /\ dpc' = "returned"
    /\ examined' = Iterated
    /\ UNCHANGED <<lopt, cur, c, optarg, r, ga0, calls, ncalls, nverbose>>
    /\ UNCHANGED <<rvars, hvars>>

\* The code matches and the name is none of the five: no branch is taken,
\* lopt is not advanced, and the loop tests the same descriptor again.
DispatchNoBranch ==
    /\ Matched
    /\ lopt[cur].name \notin Range(GlobalNames)
    /\ examined' = Iterated
    /\ UNCHANGED <<ga, lopt, cur, c, optarg, r, ret, dpc, ga0, calls, ncalls, nverbose>>
    /\ UNCHANGED <<rvars, hvars>>

\* The loop reached the terminator: fprintf(stderr, "...%s\n", lopt->name) with
\* lopt->name NULL, which the C library either prints as "(null)" (return -1)
\* or dereferences (the process dies).
DispatchUnexpected ==
    /\ dpc = "loop"
    /\ lopt[cur].name = Null
    /\ \/ /\ ret' = -1
          /\ dpc' = "returned"
       \/ /\ ret' = ret
          /\ dpc' = "crashed"
    /\ UNCHANGED <<ga, lopt, cur, c, optarg, r, ga0, calls, ncalls, nverbose, examined>>
    /\ UNCHANGED <<rvars, hvars>>

\* The variables of assign_short_opts while no call is modelled.
RemapIdle ==
    /\ lopts = <<>>
    /\ lopts0 = <<>>
    /\ shortopts = NullStr
    /\ i = 0
    /\ j = 0
    /\ pc = "idle"
    /\ acc = <<>>
    /\ oob = FALSE

\* A parse session: the settings after sam_global_args_init, and the table of
\* the subcommand.
InitDispatch ==
    /\ RemapIdle
    /\ HelpIdle
    /\ ga = sam_global_args_init
    /\ lopt \in UNION {TablesWith(n, SessionVals) : n \in 1..MaxN}
    /\ cur = 0
    /\ c = 0
    /\ optarg = ""
    /\ r = 0
    /\ ret = 0
    /\ dpc = "idle"
    /\ ga0 = ga
    /\ calls = <<>>
    /\ ncalls = 0
    /\ nverbose = 0
    /\ examined = 0

NextDispatch ==
    \/ DispatchCall
    \/ DispatchSkip
    \/ DispatchInputFmt
    \/ DispatchInputFmtOption
    \/ DispatchOutputFmt
    \/ DispatchOutputFmtOption
    \/ DispatchVerbose
    \/ DispatchNoBranch
    \/ DispatchUnexpected

SpecDispatch == InitDispatch /\ [][NextDispatch]_vars

\* ---------------------------------------------------- sam_global_opt_help

\* struct option lopts[] = SAM_GLOBAL_LOPTS_INIT: the five global long options
\* in their canonical order, no short option assigned, and the terminator.
SAM_GLOBAL_LOPTS_INIT ==
    [k \in 0..Len(GlobalNames) |->
        IF k = Len(GlobalNames) THEN Sentinel
        ELSE [name |-> GlobalNames[k + 1], has_arg |-> HasArg(GlobalNames[k + 1]), val |-> 0]]

\* int nopts = sizeof(lopts)/sizeof(*lopts): the entries of the array.
nopts == Cardinality(DOMAIN SAM_GLOBAL_LOPTS_INIT)

\* The control strings handed to sam_global_opt_help.
HelpStrings ==
    {NullStr} \cup {Str(s) : s \in UNION {[1..n -> ControlChars] : n \in 0..MaxHelpLen}}

\* "      --" for '.', "  -%c, --" otherwise
Header(ch) ==
    IF ch = Dot THEN [kind |-> "long", letter |-> 0]
    ELSE [kind |-> "short", letter |-> ch]

\* The strcmp chain: the description printed for a long name, <<>> for a name
\* that is none of the five.
Description(name) ==
    IF name \in Range(GlobalNames) THEN <<[kind |-> "description", of |-> name]>> ELSE <<>>

\* shortopts && shortopts[i] && i < nopts
HelpCond(so, k) == ~so.null /\ CharAt(so, k) # NUL /\ k < nopts

\* int i = 0; ... for (i = 0; ...
HelpStart ==
    /\ hpc = "call"
    /\ hi' = 0
    /\ hpc' = "loop"
    /\ UNCHANGED <<hshort, fp>>
    /\ UNCHANGED <<rvars, dvars>>

\* if (shortopts[i] == '-') continue;
HelpSkip ==
    /\ hpc = "loop"
    /\ HelpCond(hshort, hi)
    /\ CharAt(hshort, hi) = Dash
    /\ hi' = hi + 1
    /\ UNCHANGED <<hshort, fp, hpc>>
    /\ UNCHANGED <<rvars, dvars>>

\* The header, then the description of lopts[i].name.
HelpPrint ==
    /\ hpc = "loop"
    /\ HelpCond(hshort, hi)
    /\ CharAt(hshort, hi) # Dash
    /\ SAM_GLOBAL_LOPTS_INIT[hi].name # Null
    /\ fp' = fp \o <<Header(CharAt(hshort, hi))>> \o Description(SAM_GLOBAL_LOPTS_INIT[hi].name)
    /\ hi' = hi + 1
    /\ UNCHANGED <<hshort, hpc>>
    /\ UNCHANGED <<rvars, dvars>>

\* i is the index of the terminator: the header is printed and strcmp is
\* handed the NULL name, which either finds no match (nothing more is printed)
\* or dereferences it (the process dies).
HelpNullName ==
    /\ hpc = "loop"
    /\ HelpCond(hshort, hi)
    /\ CharAt(hshort, hi) # Dash
    /\ SAM_GLOBAL_LOPTS_INIT[hi].name = Null
    /\ fp' = Append(fp, Header(CharAt(hshort, hi)))
    /\ \/ /\ hi' = hi + 1
          /\ hpc' = hpc
       \/ /\ hi' = hi
          /\ hpc' = "crashed"
    /\ UNCHANGED hshort
    /\ UNCHANGED <<rvars, dvars>>

\* The loop condition fails: return.
HelpReturn ==
    /\ hpc = "loop"
    /\ ~HelpCond(hshort, hi)
    /\ hpc' = "done"
    /\ UNCHANGED <<hshort, hi, fp>>
    /\ UNCHANGED <<rvars, dvars>>

InitHelp ==
    /\ RemapIdle
    /\ DispatchIdle
    /\ hshort \in HelpStrings
    /\ hi = 0
    /\ fp = <<>>
    /\ hpc = "call"

NextHelp == HelpStart \/ HelpSkip \/ HelpPrint \/ HelpNullName \/ HelpReturn

SpecHelp == InitHelp /\ [][NextHelp]_vars

\* ------------------------------------------- assign_short_opts: properties

\* Length of the control string (0 for an absent one).
SLen(so) == IF so.null THEN 0 ELSE Len(so.s)

CountDash(so) == Cardinality({k \in 1..SLen(so) : so.s[k] = Dash})

\* The positions k < n of the control string not marked '-', in increasing order.
RECURSIVE KeptPos(_, _)
KeptPos(so, n) ==
    IF n = 0 THEN <<>>
    ELSE IF CharAt(so, n - 1) = Dash THEN KeptPos(so, n - 1)
         ELSE Append(KeptPos(so, n - 1), n - 1)

\* Number of entries before the first terminator: the size of the active table.
ActiveLen(t) ==
    IF \E k \in DOMAIN t : t[k].name = Null
    THEN CHOOSE k \in DOMAIN t :
             /\ t[k].name = Null
             /\ \A m \in DOMAIN t : t[m].name = Null => k <= m
    ELSE Cardinality(DOMAIN t)

ActiveNames(t) == {t[k].name : k \in 0..(ActiveLen(t) - 1)}

\* The same option: long name and requires-argument flag.
SameOption(d, e) == d.name = e.name /\ d.has_arg = e.has_arg

\* The first n entries of the table are the descriptors lopts0 held at the
\* positions of the control string not marked '-', in their order.
KeptPrefixIs(n) ==
    LET kp == KeptPos(shortopts, SLen(shortopts))
    IN  /\ n = Len(kp)
        /\ \A p \in 1..Len(kp) : SameOption(lopts[p - 1], lopts0[kp[p]])

\* C1 as stated: for every control string of length <= N, after
\* assign_short_opts the active table has exactly length - count('-') entries,
\* the descriptors at the positions not marked '-', in their original order.
C1_ActiveTableAnyLength ==
    (pc = "done" /\ ~shortopts.null) =>
        /\ ActiveLen(lopts) = SLen(shortopts) - CountDash(shortopts)
        /\ KeptPrefixIs(ActiveLen(lopts))

\* C1 amended: for every control string with one character per descriptor
\* (length = N), after assign_short_opts the active table has exactly
\* length - count('-') entries, the descriptors at the positions not marked
\* '-', in their original order.
C1_ActiveTableFullLength ==
    (pc = "done" /\ ~shortopts.null /\ SLen(shortopts) = NDesc(lopts0)) =>
        /\ ActiveLen(lopts) = SLen(shortopts) - CountDash(shortopts)
        /\ KeptPrefixIs(ActiveLen(lopts))

C1_Witness ==
    /\ pc = "done"
    /\ ~shortopts.null
    /\ SLen(shortopts) = NDesc(lopts0)
    /\ NDesc(lopts0) = 3
    /\ shortopts.s[1] = Dash
    /\ shortopts.s[2] \in Letters
    /\ shortopts.s[3] = Dot
    /\ ActiveLen(lopts) = 2

\* The index in the compacted table of the descriptor read at position p.
Rank(p) == Len(KeptPos(shortopts, p))

\* What C2 says of the kept descriptors: a letter is assigned, '.' leaves val as
\* it was, and the long name and requires-argument flag are unchanged.
KeptValues ==
    \A p \in 0..(SLen(shortopts) - 1) :
        LET ch == CharAt(shortopts, p)
        IN  ch # Dash =>
              /\ SameOption(lopts[Rank(p)], lopts0[p])
              /\ ch \in Letters => lopts[Rank(p)].val = ch
              /\ ch = Dot => lopts[Rank(p)].val = lopts0[p].val

\* What C2 says of the descriptors marked '-': no entry of the active table
\* carries their long name.
DroppedAbsent ==
    \A p \in 0..(SLen(shortopts) - 1) :
        CharAt(shortopts, p) = Dash => lopts0[p].name \notin ActiveNames(lopts)

\* C2 as stated: for every control string of length <= N, a letter at position
\* i is the short-form value of the kept descriptor from position i, '.' leaves
\* its value unchanged, a descriptor marked '-' is absent from the active
\* table, and name and requires-argument flag of kept descriptors are unchanged.
C2_ValuesAnyLength ==
    (pc = "done" /\ ~shortopts.null) => (KeptValues /\ DroppedAbsent)

\* C2 amended: for every control string of length <= N the kept descriptor from
\* position i has short-form value s[i] if s[i] is a letter and its value
\* unchanged if s[i] is '.', with long name and requires-argument flag
\* unchanged; when length = N, a descriptor marked '-' is carried by no entry of
\* the active table.
C2_ValuesAssigned ==
    (pc = "done" /\ ~shortopts.null) =>
        /\ KeptValues
        /\ SLen(shortopts) = NDesc(lopts0) => DroppedAbsent

C2_Witness ==
    /\ pc = "done"
    /\ ~shortopts.null
    /\ SLen(shortopts) = 3
    /\ NDesc(lopts0) = 3
    /\ shortopts.s[1] = Dot
    /\ shortopts.s[2] = Dash
    /\ shortopts.s[3] = 98
    /\ lopts0[0].val = 97
    /\ lopts[0].val = 97
    /\ lopts[1].val = 98

\* C3 as stated: for every control string of length <= N (strictly shorter
\* ones, the empty and the absent one included) the terminator is written
\* right after the last kept entry, so that the descriptors at positions at or
\* beyond the string's length are absent from the active table.
C3_SentinelAnyLength ==
    pc = "done" =>
        /\ lopts[j].name = Null
        /\ ActiveLen(lopts) = Rank(SLen(shortopts))
        /\ \A p \in SLen(shortopts)..(NDesc(lopts0) - 1) :
              lopts0[p].name \notin ActiveNames(lopts)

\* C3 amended: assign_short_opts ends by copying the entry at position
\* length(s) to the write cursor.  When length(s) = N that entry is the
\* terminator, which then follows the last kept entry immediately.  When
\* length(s) < N (the empty and the absent string included) it is the
\* descriptor at position length(s): no terminator is written, the active
\* table keeps N entries, and every descriptor at a position at or beyond
\* length(s) is still in it.
C3_SentinelFullLength ==
    pc = "done" =>
        /\ j = Rank(SLen(shortopts))
        /\ lopts[j] = lopts0[SLen(shortopts)]
        /\ SLen(shortopts) = NDesc(lopts0) =>
              /\ lopts[j] = Sentinel
              /\ ActiveLen(lopts) = j
        /\ SLen(shortopts) < NDesc(lopts0) =>
              /\ lopts[j].name # Null
              /\ ActiveLen(lopts) = NDesc(lopts0)
              /\ \A p \in SLen(shortopts)..(NDesc(lopts0) - 1) :
                    lopts0[p].name \in ActiveNames(lopts)
        /\ SLen(shortopts) = 0 => lopts = lopts0

C3_Witness ==
    /\ pc = "done"
    /\ ~shortopts.null
    /\ SLen(shortopts) = NDesc(lopts0)
    /\ NDesc(lopts0) = 3
    /\ CountDash(shortopts) = 2
    /\ lopts[1] = Sentinel

\* C10: at every table access of assign_short_opts on a control string of
\* length <= N the cursors satisfy 0 <= j <= i <= N, so no index outside 0..N
\* is read or written; no entry is overwritten before it has been read (the
\* entries at and beyond the read cursor are the original ones), and every
\* kept entry is a copy of the original descriptor at its read position.
C10_CursorsInBounds ==
    /\ ~oob
    /\ \A a \in 1..Len(acc) :
          /\ 0 <= acc[a].w
          /\ acc[a].w <= acc[a].r
          /\ acc[a].r <= NDesc(lopts0)
    /\ pc = "loop" =>
          /\ j <= i
          /\ \A p \in i..NDesc(lopts0) : lopts[p] = lopts0[p]
          /\ j = Rank(i)
          /\ \A p \in 0..(i - 1) :
                CharAt(shortopts, p) # Dash => SameOption(lopts[Rank(p)], lopts0[p])

C10_Witness ==
    /\ pc = "loop"
    /\ i = 3
    /\ j = 1
    /\ Len(acc) = 3
    /\ acc[3].w = 0
    /\ lopts[0].name = lopts0[2].name
    /\ lopts[0].name # lopts0[0].name

\* ---------------------------------------- parse_sam_global_opt: properties

\* The long name of the first descriptor whose val is the code (Null: none).
MatchName == lopt[FirstMatch(lopt, c)].name

Other(which) == IF which = "in" THEN "out" ELSE "in"

\* C4: when a descriptor carries the code, parse_sam_global_opt stops at the
\* first such descriptor and applies its effect and no other: input-fmt and
\* output-fmt call the format-spec parser on the input, respectively output,
\* format; input-fmt-option and output-fmt-option call the add-option
\* collaborator on the input, respectively output, option list; the call is
\* the only one made, and what it returned is what is returned.
C4_DispatchFirstMatch ==
    /\ dpc = "loop" => (calls = <<>> /\ ga = ga0 /\ cur <= FirstMatch(lopt, c))
    /\ (/\ dpc = "returned"
        /\ MatchName \in {"input-fmt", "input-fmt-option", "output-fmt", "output-fmt-option"}) =>
          LET which == IF MatchName \in {"input-fmt", "input-fmt-option"} THEN "in" ELSE "out"
              parse == MatchName \in {"input-fmt", "output-fmt"}
          IN  /\ cur = FirstMatch(lopt, c)
              /\ Len(calls) = 1
              /\ calls[1].fn = (IF parse THEN "hts_parse_opt_format" ELSE "hts_opt_add")
              /\ calls[1].target = which
              /\ calls[1].arg = optarg
              /\ calls[1].ret = ret
              /\ ga[Other(which)] = ga0[Other(which)]
              /\ ga.verbosity = ga0.verbosity
              /\ parse => ga[which] \in {o.target : o \in hts_parse_opt_format(ga0[which], optarg)}
              /\ ~parse =>
                    /\ ga[which].format = ga0[which].format
                    /\ ga[which].opts \in {o.target : o \in hts_opt_add(ga0[which].opts, optarg)}

C4_Witness ==
    /\ dpc = "returned"
    /\ NDesc(lopt) = 3
    /\ lopt[0].val # c
    /\ lopt[1].val = c
    /\ lopt[2].val = c
    /\ lopt[1].name = "output-fmt"
    /\ lopt[2].name = "verbose"
    /\ ret = 0
    /\ ga.out.format = "bam"
    /\ ga.in.format = "unknown_format"
    /\ ga.verbosity = 0

\* C5: a call with a code no descriptor before the terminator carries returns
\* failure (-1) and leaves the settings as they were: both format specs, both
\* option lists and the verbosity counter; no collaborator is invoked.
C5_NoMatchReturnsFailure ==
    (dpc \in {"returned", "crashed"} /\ MatchName = Null) =>
        /\ dpc = "returned"
        /\ ret = -1
        /\ ga = ga0
        /\ calls = <<>>

\* C6: each call whose matched descriptor is verbose adds exactly 1 to the
\* verbosity counter and returns success, whatever the argument and the
\* settings; after any sequence of calls from the initial settings the counter
\* is the number of calls that matched verbose, and no step decreases it.
C6_VerbosityCounts ==
    /\ [](/\ dpc \in {"idle", "returned", "crashed"} => ga.verbosity = nverbose
          /\ (dpc = "returned" /\ MatchName = "verbose") =>
                /\ ret = 0
                /\ ga.verbosity = ga0.verbosity + 1
                /\ ga.in = ga0.in
                /\ ga.out = ga0.out)
    /\ [][ga'.verbosity >= ga.verbosity]_vars

C6_Witness ==
    /\ dpc = "returned"
    /\ MatchName = "verbose"
    /\ ncalls = 3
    /\ ga.verbosity = 3
    /\ ret = 0

\* What C7 says of a successful call that matched `name`-option on the format
\* `which`: one option, that of the argument, is appended, and the rest of the
\* settings is as it was.
AppendsOneOption(name, which) ==
    (dpc = "returned" /\ ret = 0 /\ MatchName = name /\ optarg \in OptionTokens) =>
        /\ ga[which].opts = Append(ga0[which].opts, ParseOpt(optarg))
        /\ ga[which].format = ga0[which].format
        /\ ga[Other(which)] = ga0[Other(which)]
        /\ ga.verbosity = ga0.verbosity

\* C7: a successful call matching input-fmt-option with a KEY=VALUE argument
\* appends exactly one option to the input format's option list and changes
\* nothing else: the options already in the list and their order, the input
\* format, the output format spec with its list, the verbosity counter, the
\* descriptor table.  Symmetrically for output-fmt-option.
C7_OptionAppended ==
    /\ [](/\ AppendsOneOption("input-fmt-option", "in")
          /\ AppendsOneOption("output-fmt-option", "out"))
    /\ [][lopt' = lopt]_vars

C7_Witness ==
    /\ dpc = "returned"
    /\ ret = 0
    /\ MatchName = "input-fmt-option"
    /\ optarg = "nthreads=4"
    /\ ga.in.opts = <<ParseOpt("level=9"), ParseOpt("nthreads=4")>>
    /\ ga.out.opts = <<ParseOpt("level=9")>>

\* C9: every call terminates, returning success or failure after examining at
\* most as many descriptors as the table holds, whatever the code and the
\* table, a table with a descriptor that carries the code under a long name
\* that is none of the five global ones included.
C9_DispatchTerminates ==
    dpc = "loop" => examined <= NDesc(lopt)

\* ----------------------------------------- sam_global_opt_help: properties

Min(a, b) == IF a < b THEN a ELSE b

\* The blocks C8 expects for the first n positions of the control string: for
\* each position not marked '-', a header (long-only for '.', with the letter
\* otherwise) and the description of the canonical option at that position.
RECURSIVE Blocks(_, _)
Blocks(so, n) ==
    IF n = 0 THEN <<>>
    ELSE LET ch == CharAt(so, n - 1)
         IN  IF ch = Dash THEN Blocks(so, n - 1)
             ELSE Blocks(so, n - 1)
                    \o <<IF ch = Dot THEN [kind |-> "long", letter |-> 0]
                         ELSE [kind |-> "short", letter |-> ch],
                         [kind |-> "description", of |-> GlobalNames[n]]>>

HelpBlocksWithinTable ==
    (hpc \in {"done", "crashed"} /\ SLen(hshort) <= Len(GlobalNames)) =>
        /\ hpc = "done"
        /\ fp = Blocks(hshort, SLen(hshort))

====
